---- MODULE Spec2Model ----
(***************************************************************************)
(* A model of the Office2PDF Node.js client (sdk-node): the constructor,   *)
(* convert() with its retry loop, sendConvertRequest(), handleResponse(),  *)
(* normalizeError() and isRetryAble(), with the HTTP transport, the timer, *)
(* the caller's AbortSignal and the file system as the environment.        *)
(***************************************************************************)
EXTENDS Integers, Sequences, FiniteSets, TLC

(* ------------------------------ JS values ------------------------------ *)

\* JavaScript undefined / null for string-valued fields.
Undefined == "undefined"
Null == "null"

\* A JavaScript number-or-undefined: an integer, NaN, or undefined.
Num(k) == [kind |-> "int", n |-> k]
NaN == [kind |-> "NaN", n |-> 0]
UndefinedNum == [kind |-> "undefined", n |-> 0]

\* a ?? b on numbers
Coalesce(a, b) == IF a.kind = "undefined" THEN b ELSE a

\* a <= b and a < b on numbers: false as soon as one side is NaN
Le(a, b) == a.kind = "int" /\ b.kind = "int" /\ a.n <= b.n
Lt(a, b) == a.kind = "int" /\ b.kind = "int" /\ a.n < b.n

\* truthiness of a number-or-undefined
Truthy(a) == a.kind = "int" /\ a.n # 0

\* Math.max(a, b): NaN as soon as one argument is NaN
MathMax(a, b) ==
  IF a.kind = "NaN" \/ b.kind = "NaN" THEN NaN
  ELSE IF a.n >= b.n THEN a ELSE b

RECURSIVE Pow2(_)
Pow2(e) == IF e <= 0 THEN 1 ELSE 2 * Pow2(e - 1)

(* ------------------------------- bounds -------------------------------- *)

\* the configured maxRetries ranges over -1..MaxRetriesOpt, NaN and omitted
MaxRetriesOpt == 2

\* length of the response bodies the server sends
BodyLen == 2

(* ------------------------------ constants ------------------------------ *)

DEFAULT_BASE_URL == "https://api.office2pdf.app"
DEFAULT_TIMEOUT_MS == 120000
DEFAULT_MAX_RETRIES == 2
BackoffBaseMs == 300
JitterSpanMs == 150

Codes ==
  { "UNAUTHORIZED", "FORBIDDEN", "NOT_FOUND", "RATE_LIMITED", "QUOTA_EXCEEDED",
    "INVALID_REQUEST", "SERVER_ERROR", "NETWORK_ERROR", "TIMEOUT", "UNKNOWN" }

(* ------------------------------- utils --------------------------------- *)

\* a faulty variant: every 4xx and 5xx status is retried
isRetryAbleStatusAnyError(status) == status >= 400 /\ status <= 599

\* a faulty variant: 408 is not among the retried statuses
isRetryAbleStatusNo408(status) ==
  status = 429 \/ (status >= 500 /\ status <= 599)

isRetryAbleStatus(status) ==
  status = 408 \/ status = 429 \/ (status >= 500 /\ status <= 599)

\* a faulty variant: the base is that of the first retry whatever the attempt
getBackoffMsCached(attempt, jitter) == BackoffBaseMs + jitter

\* jitter is Math.floor(Math.random() * 150), drawn by the caller
getBackoffMs(attempt, jitter) == BackoffBaseMs * Pow2(attempt) + jitter

\* the values Math.floor(Math.random() * 150) is sampled at
Jitters == {0, JitterSpanMs \div 2, JitterSpanMs - 1}

\* a faulty variant: the table has no entry for 413
mapStatusToCodeNo413(status) ==
  IF status = 401 THEN "UNAUTHORIZED"
  ELSE IF status = 403 THEN "FORBIDDEN"
  ELSE IF status = 404 THEN "NOT_FOUND"
  ELSE IF status = 429 THEN "RATE_LIMITED"
  ELSE IF status >= 400 /\ status < 500 THEN "INVALID_REQUEST"
  ELSE IF status >= 500 THEN "SERVER_ERROR"
  ELSE "UNKNOWN"

mapStatusToCode(status) ==
  IF status = 401 THEN "UNAUTHORIZED"
  ELSE IF status = 403 THEN "FORBIDDEN"
  ELSE IF status = 404 THEN "NOT_FOUND"
  ELSE IF status = 429 THEN "RATE_LIMITED"
  ELSE IF status = 413 THEN "QUOTA_EXCEEDED"
  ELSE IF status >= 400 /\ status < 500 THEN "INVALID_REQUEST"
  ELSE IF status >= 500 THEN "SERVER_ERROR"
  ELSE "UNKNOWN"

(* ------------------------------- errors -------------------------------- *)

\* the parsed JSON body of an error response: each field is a typed value
JsonString(v) == [t |-> "string", v |-> v]
JsonNumber == [t |-> "number", v |-> ""]
JsonMissing == [t |-> "undefined", v |-> ""]
NullJson == [isNull |-> TRUE, message |-> JsonMissing, error_description |-> JsonMissing]
JsonObject(m, d) == [isNull |-> FALSE, message |-> m, error_description |-> d]

NoDetails == [kind |-> "undefined", json |-> NullJson, name |-> ""]
JsonDetails(json) == [kind |-> "json", json |-> json, name |-> ""]
NameDetails(name) == [kind |-> "name", json |-> NullJson, name |-> name]
RawDetails == [kind |-> "raw", json |-> NullJson, name |-> ""]

\* a thrown value: an Office2PDFError, a DOMException, another Error, or a
\* value that is no Error at all (type "other")
Thrown(type, name, code, status, requestId, message, details) ==
  [type |-> type, name |-> name, code |-> code, status |-> status,
   requestId |-> requestId, message |-> message, details |-> details]

NoError == Thrown("none", "", Undefined, UndefinedNum, Undefined, Undefined, NoDetails)

Office2PDFError(message, code, status, requestId, details) ==
  Thrown("Office2PDFError", "Office2PDFError", code, status, requestId, message, details)

DOMException(name, message) ==
  Thrown("DOMException", name, Undefined, UndefinedNum, Undefined, message, NoDetails)

JsError(name, message) ==
  Thrown("Error", name, Undefined, UndefinedNum, Undefined, message, NoDetails)

NonError == Thrown("other", "", Undefined, UndefinedNum, Undefined, Undefined, NoDetails)

\* instanceof Error: DOMException.prototype inherits from Error.prototype
InstanceOfError(err) == err.type \in {"Office2PDFError", "DOMException", "Error"}

\* a faulty variant: no branch for the AbortError DOMException
normalizeErrorNoAbort(err) ==
  IF err.type = "Office2PDFError" THEN err
  ELSE IF InstanceOfError(err)
    THEN Office2PDFError(err.message, "NETWORK_ERROR", UndefinedNum, Undefined,
                         NameDetails(err.name))
  ELSE Office2PDFError("Unknown error", "UNKNOWN", UndefinedNum, Undefined, RawDetails)

\* a faulty variant: a value that is no Error is rethrown as it is
normalizeErrorRethrow(err) ==
  IF err.type = "Office2PDFError" THEN err
  ELSE IF err.type = "DOMException" /\ err.name = "AbortError"
    THEN Office2PDFError("Request timed out", "TIMEOUT", UndefinedNum, Undefined, NoDetails)
  ELSE IF InstanceOfError(err)
    THEN Office2PDFError(err.message, "NETWORK_ERROR", UndefinedNum, Undefined,
                         NameDetails(err.name))
  ELSE err

\* a faulty variant: an Error that is no abort is given the kind UNKNOWN
normalizeErrorErrorsUnknown(err) ==
  IF err.type = "Office2PDFError" THEN err
  ELSE IF err.type = "DOMException" /\ err.name = "AbortError"
    THEN Office2PDFError("Request timed out", "TIMEOUT", UndefinedNum, Undefined, NoDetails)
  ELSE IF InstanceOfError(err)
    THEN Office2PDFError(err.message, "UNKNOWN", UndefinedNum, Undefined,
                         NameDetails(err.name))
  ELSE Office2PDFError("Unknown error", "UNKNOWN", UndefinedNum, Undefined, RawDetails)

normalizeError(err) ==
  IF err.type = "Office2PDFError" THEN err
  ELSE IF err.type = "DOMException" /\ err.name = "AbortError"
    THEN Office2PDFError("Request timed out", "TIMEOUT", UndefinedNum, Undefined, NoDetails)
  ELSE IF InstanceOfError(err)
    THEN Office2PDFError(err.message, "NETWORK_ERROR", UndefinedNum, Undefined,
                         NameDetails(err.name))
  ELSE Office2PDFError("Unknown error", "UNKNOWN", UndefinedNum, Undefined, RawDetails)

\* a faulty variant: the error's HTTP status is not looked at
isRetryAbleNoStatus(error) ==
  error.code = "TIMEOUT" \/ error.code = "NETWORK_ERROR"

\* a faulty variant: a failure of kind UNKNOWN is taken for transient too
isRetryAbleUnknownToo(error) ==
  IF error.code \in {"TIMEOUT", "NETWORK_ERROR", "UNKNOWN"} THEN TRUE
  ELSE IF Truthy(error.status) /\ isRetryAbleStatus(error.status.n) THEN TRUE
  ELSE FALSE

isRetryAble(error) ==
  IF error.code = "TIMEOUT" \/ error.code = "NETWORK_ERROR" THEN TRUE
  ELSE IF Truthy(error.status) /\ isRetryAbleStatus(error.status.n) THEN TRUE
  ELSE FALSE

(* ------------------------------ responses ------------------------------ *)

\* a response of the transport: status line, the three headers the client
\* reads, the body (hasBody = FALSE is res.body === null) and, for an error
\* response, what JSON.parse makes of the body
Response(status, contentType, xRequestId, cfRay, hasBody, bytes, parses, json) ==
  [status |-> status, contentType |-> contentType, xRequestId |-> xRequestId,
   cfRay |-> cfRay, hasBody |-> hasBody, bytes |-> bytes, parses |-> parses,
   json |-> json]

NoResponse == Response(0, Null, Null, Null, FALSE, <<>>, FALSE, NullJson)

\* res.ok
Ok(res) == res.status >= 200 /\ res.status <= 299

\* ct.includes("application/json") on the content types of the model
IncludesJson(ct) == ct \in {"application/json", "application/json; charset=utf-8"}

\* res.parses is FALSE whenever res.json() rejects: the body is no JSON, or
\* reading it is cut short (the catch swallows that too, an abort included)
safeReadJson(res) ==
  LET ct == IF res.contentType = Null THEN "" ELSE res.contentType
  IN IF ~IncludesJson(ct) THEN NullJson
     ELSE IF res.parses THEN res.json ELSE NullJson

\* a faulty variant: cf-ray is looked up before x-request-id
getRequestIdCfRayFirst(res) ==
  IF res.cfRay # Null THEN res.cfRay
  ELSE IF res.xRequestId # Null THEN res.xRequestId
  ELSE Undefined

getRequestId(res) ==
  IF res.xRequestId # Null THEN res.xRequestId
  ELSE IF res.cfRay # Null THEN res.cfRay
  ELSE Undefined

(* ------------------------------- results ------------------------------- *)

Result(kind, buffer, path, stream, contentType, requestId) ==
  [kind |-> kind, buffer |-> buffer, path |-> path, stream |-> stream,
   contentType |-> contentType, requestId |-> requestId]

NoResult == Result("none", <<>>, Undefined, <<>>, Undefined, Undefined)

\* res.headers.get("content-type") ?? "application/pdf"
ContentTypeOf(res) ==
  IF res.contentType = Null THEN "application/pdf" ELSE res.contentType

\* a faulty variant: error_description is looked at before message
ErrorMessageDescriptionFirst(json, status) ==
  IF json.error_description.t = "string" THEN json.error_description.v
  ELSE IF json.message.t = "string" THEN json.message.v
  ELSE "Request failed with status " \o ToString(status)

\* the message of the error handleResponse throws for a non-2xx response
ErrorMessage(json, status) ==
  IF json.message.t = "string" THEN json.message.v
  ELSE IF json.error_description.t = "string" THEN json.error_description.v
  ELSE "Request failed with status " \o ToString(status)

\* the error handleResponse throws for a non-2xx response
HttpError(res) ==
  LET json == safeReadJson(res)
  IN Office2PDFError(ErrorMessage(json, res.status), mapStatusToCode(res.status),
                     Num(res.status), getRequestId(res),
                     IF json.isNull THEN NoDetails ELSE JsonDetails(json))

EmptyBodyError(res) ==
  Office2PDFError("Empty response body", "UNKNOWN", UndefinedNum, getRequestId(res),
                  NoDetails)

StreamResult(res) ==
  Result("stream", <<>>, Undefined, res.bytes, ContentTypeOf(res), getRequestId(res))

DownloadedResult(res, params) ==
  Result("downloaded", <<>>, params.downloadToPath, <<>>, ContentTypeOf(res),
         getRequestId(res))

BufferResult(res, buffer) ==
  Result("buffer", buffer, Undefined, <<>>, ContentTypeOf(res), getRequestId(res))

\* truthiness of params.downloadToPath
DownloadRequested(params) == params.downloadToPath \notin {Undefined, ""}

\* handleResponse up to its first await on the body: it throws, returns the
\* stream, or goes on to streamToFile or to res.arrayBuffer()
handleResponse(res, params) ==
  IF ~Ok(res) THEN [next |-> "throw", err |-> HttpError(res), result |-> NoResult]
  ELSE IF params.asWebStream
    THEN IF ~res.hasBody
           THEN [next |-> "throw", err |-> EmptyBodyError(res), result |-> NoResult]
           ELSE [next |-> "return", err |-> NoError, result |-> StreamResult(res)]
  ELSE IF DownloadRequested(params)
    THEN IF ~res.hasBody
           THEN [next |-> "throw", err |-> EmptyBodyError(res), result |-> NoResult]
           ELSE [next |-> "streamToFile", err |-> NoError, result |-> NoResult]
  ELSE [next |-> "arrayBuffer", err |-> NoError, result |-> NoResult]

(* ------------------------------ validation ----------------------------- *)

\* String.prototype.trim on the strings of the model
Trim(s) ==
  CASE s = " " -> ""
    [] s = " k " -> "k"
    [] OTHER -> s

\* path.dirname on the destination paths of the model
Dirname(p) ==
  CASE p = "out.pdf" -> "."
    [] p = "rw/out.pdf" -> "rw"
    [] p = "ro/out.pdf" -> "ro"
    [] OTHER -> "."

\* access(dir, W_OK) in the file system fs: "rw" is writable, "ro" is not,
\* the current directory is as fs says
Writable(dir, fs) ==
  CASE dir = "rw" -> TRUE
    [] dir = "ro" -> FALSE
    [] OTHER -> fs.cwdWritable

InvalidRequest(message) ==
  Office2PDFError(message, "INVALID_REQUEST", UndefinedNum, Undefined, NoDetails)

\* a faulty variant: asWebStream together with downloadToPath is let through
validateParamsBothModes(params, fs) ==
  IF Trim(params.filePath) = ""
    THEN InvalidRequest("filePath is required")
  ELSE IF ~fs.srcReadable
    THEN InvalidRequest("File not found or not readable: " \o params.filePath)
  ELSE IF DownloadRequested(params)
          /\ Dirname(params.downloadToPath) # "."
          /\ ~Writable(Dirname(params.downloadToPath), fs)
    THEN InvalidRequest("Download directory not writable: "
                        \o Dirname(params.downloadToPath))
  ELSE NoError

\* the error validateParams throws, NoError when it returns
validateParams(params, fs) ==
  IF Trim(params.filePath) = ""
    THEN InvalidRequest("filePath is required")
  ELSE IF ~fs.srcReadable
    THEN InvalidRequest("File not found or not readable: " \o params.filePath)
  ELSE IF params.asWebStream /\ DownloadRequested(params)
    THEN InvalidRequest("Cannot use asWebStream with downloadToPath")
  ELSE IF DownloadRequested(params)
          /\ Dirname(params.downloadToPath) # "."
          /\ ~Writable(Dirname(params.downloadToPath), fs)
    THEN InvalidRequest("Download directory not writable: "
                        \o Dirname(params.downloadToPath))
  ELSE NoError

(* -------------------------------- state -------------------------------- *)

VARIABLES
  pc,           \* where the program is: "new", "ctorThrew", "idle", "loop",
                \* "building", "fetching", "reading", "piping", "sleeping",
                \* "returned", "threw"
  opts,         \* the options the client was constructed with
  client,       \* the client's private readonly fields
  params,       \* the ConvertParams of the call
  fs,           \* the file system as validateParams found it
  signal,       \* params.signal: "none", "idle", or aborted with a reason that is
                \* an "AbortError" (the default), another "Error", or "other"
  attempt,      \* the loop variable of convert
  lastError,    \* the local lastError of convert
  thrown,       \* the error convert rejected with
  result,       \* the ConvertResult convert resolved with
  res,          \* the response of the current attempt
  received,     \* how many bytes of res.body have been read
  timerArmed,   \* the setTimeout of sendConvertRequest is pending
  listeners,    \* the signals that carry an onAbort listener of mergeAbortSignals
  fetchSignal,  \* the signal handed to fetch: "none", "timer", "caller", "merged"
  backoffMs,    \* the duration of the sleep in progress
  destExists,   \* the file at params.downloadToPath exists
  destBytes,    \* and its content
  attempts,     \* history: calls of sendConvertRequest
  fetchCalls,   \* history: calls of fetch (HTTP requests issued)
  sleeps,       \* history: backoff sleeps started
  failures,     \* history: attempts that failed
  inflight,     \* history: the requests issued (numbered by fetchCalls) that
                \* the client is still awaiting
  cause,        \* history: what made the current attempt fail, "none" so far
  allTransient, \* history: every failed attempt so far failed by a timeout or
                \* cancellation in flight, a transport failure, or a 408, 429 or
                \* 5xx response
  calls,        \* the convert calls that run concurrently on the client, each
                \* with its own locals (used where two calls are interleaved)
  srcContent,   \* the content of the file at params.filePath on disk
  uploads,      \* history: the form data handed to fetch, one per request
  streamState   \* the body stream of a stream result: "none" before there is
                \* one, then "live", and "aborted" once its request is aborted

vars ==
  << pc, opts, client, params, fs, signal, attempt, lastError, thrown, result, res,
     received, timerArmed, listeners, fetchSignal, backoffMs, destExists, destBytes,
     attempts, fetchCalls, sleeps, failures, inflight, cause, allTransient,
     calls, srcContent, uploads, streamState >>

(* ------------------------------- inputs -------------------------------- *)

ApiKeys == {Undefined, "", " ", " k "}

MaxRetriesOpts == {UndefinedNum, NaN} \cup {Num(k) : k \in -1..MaxRetriesOpt}

Options == [apiKey : ApiKeys, maxRetries : MaxRetriesOpts]

NoOptions == [apiKey |-> Undefined, maxRetries |-> UndefinedNum]

NoClient ==
  [apiKey |-> Undefined, baseUrl |-> Undefined, timeoutMs |-> UndefinedNum,
   userAgent |-> Undefined, maxRetries |-> UndefinedNum]

FilePaths == {"", " ", "a.docx"}

DownloadPaths == {Undefined, "", "out.pdf", "rw/out.pdf", "ro/out.pdf"}

Params ==
  [filePath : FilePaths, asWebStream : BOOLEAN, downloadToPath : DownloadPaths,
   hasSignal : BOOLEAN]

NoParams ==
  [filePath |-> "", asWebStream |-> FALSE, downloadToPath |-> Undefined,
   hasSignal |-> FALSE]

\* the file systems a call can find; the current directory's permission is
\* chosen only where the call depends on it
FileSystems(p) ==
  [srcReadable : BOOLEAN,
   cwdWritable : IF Dirname(p.downloadToPath) = "." /\ DownloadRequested(p)
                   THEN BOOLEAN ELSE {TRUE}]

NoFs == [srcReadable |-> TRUE, cwdWritable |-> TRUE]

AbortReasons == {"AbortError", "Error", "other"}

\* the request ids the server gives its k-th request
Rid(k) == "rid_" \o ToString(k)
Ray(k) == "ray_" \o ToString(k)

\* the body the server sends
Body == [i \in 1..BodyLen |-> 64 + i]

EmptyJson == JsonObject(JsonMissing, JsonMissing)

\* the responses the server gives its k-th request in the retry model
Responses(k) ==
  { Response(st, ct, x, cf, hb, IF hb THEN Body ELSE <<>>, TRUE, EmptyJson) :
      st \in {200}, ct \in {Null, "application/pdf"},
      x \in {Null, Rid(k)}, cf \in {Null, Ray(k)}, hb \in BOOLEAN }
  \cup
  { Response(st, "application/json", x, cf, TRUE, <<>>, TRUE, EmptyJson) :
      st \in {302, 401, 408, 429, 503, 600},
      x \in {Null, Rid(k)}, cf \in {Null, Ray(k)}, hb \in {TRUE} }

\* no concurrent calls
NoCalls == << >>

(* -------------------------------- Init --------------------------------- *)

Init ==
  /\ pc = "new"
  /\ opts = NoOptions
  /\ client = NoClient
  /\ params = NoParams
  /\ fs = NoFs
  /\ signal = "none"
  /\ attempt = 0
  /\ lastError = NoError
  /\ thrown = NoError
  /\ result = NoResult
  /\ res = NoResponse
  /\ received = 0
  /\ timerArmed = FALSE
  /\ listeners = {}
  /\ fetchSignal = "none"
  /\ backoffMs = 0
  /\ destExists = FALSE
  /\ destBytes = <<>>
  /\ attempts = 0
  /\ fetchCalls = 0
  /\ sleeps = 0
  /\ failures = 0
  /\ inflight = {}
  /\ cause = "none"
  /\ allTransient = TRUE
  /\ calls = NoCalls
  /\ srcContent = "v1"
  /\ uploads = << >>
  /\ streamState = "none"

(* ----------------------------- constructor ----------------------------- *)

\* a faulty variant: the key is not trimmed before it is tested
ApiKeyMissingNoTrim(o) == o.apiKey = Undefined \/ o.apiKey = ""

\* !opts?.apiKey?.trim()
ApiKeyMissing(o) == o.apiKey = Undefined \/ Trim(o.apiKey) = ""

\* Math.max(0, opts.maxRetries ?? DEFAULT_MAX_RETRIES)
ClampMaxRetries(o) == MathMax(Num(0), Coalesce(o.maxRetries, Num(DEFAULT_MAX_RETRIES)))

NewClient(o) ==
  [apiKey |-> Trim(o.apiKey), baseUrl |-> DEFAULT_BASE_URL,
   timeoutMs |-> Num(DEFAULT_TIMEOUT_MS), userAgent |-> "office2pdf-node",
   maxRetries |-> ClampMaxRetries(o)]

Construct ==
  /\ pc = "new"
  /\ \E o \in Options :
       /\ opts' = o
       /\ IF ApiKeyMissing(o)
            THEN pc' = "ctorThrew" /\ client' = client
            ELSE pc' = "idle" /\ client' = NewClient(o)
  /\ UNCHANGED << params, fs, signal, attempt, lastError, thrown, result, res,
                  received, timerArmed, listeners, fetchSignal, backoffMs,
                  destExists, destBytes, attempts, fetchCalls, sleeps, failures,
                  cause, allTransient, inflight, calls, srcContent, uploads, streamState >>

(* ------------------------------- convert ------------------------------- *)

\* convert up to the loop: validateParams throws, or the loop starts
Convert ==
  /\ pc = "idle"
  /\ \E p \in Params :
       \E f \in FileSystems(p) :
         \E s \in (IF p.hasSignal THEN {"idle"} \cup AbortReasons ELSE {"none"}) :
           /\ params' = p
           /\ fs' = f
           /\ signal' = s
           /\ IF validateParams(p, f).type # "none"
                THEN pc' = "threw" /\ thrown' = validateParams(p, f)
                ELSE pc' = "loop" /\ thrown' = thrown
  /\ attempt' = 0
  /\ lastError' = NoError
  /\ UNCHANGED << opts, client, result, res, received, timerArmed, listeners,
                  fetchSignal, backoffMs, destExists, destBytes, attempts,
                  fetchCalls, sleeps, failures, cause, allTransient, inflight, calls, srcContent, uploads, streamState >>

\* attempt <= this.maxRetries
LoopCondition(i, maxRetries) == Le(Num(i), maxRetries)

\* a faulty variant: off by one, the last permitted attempt is retried too
ShouldRetryInclusive(i, maxRetries, normalized) ==
  Le(Num(i), maxRetries) /\ isRetryAble(normalized)

\* a faulty variant: every failure is retried while attempts remain
ShouldRetryAnyError(i, maxRetries, normalized) == Lt(Num(i), maxRetries)

\* attempt < this.maxRetries && this.isRetryAble(normalized)
ShouldRetry(i, maxRetries, normalized) ==
  Lt(Num(i), maxRetries) /\ isRetryAble(normalized)

\* a faulty variant: sendConvertRequest is not awaited, the loop goes on while
\* the request is still in flight
LoopEnterUnawaited ==
  /\ pc \in {"loop", "fetching"}
  /\ LoopCondition(attempt, client.maxRetries)
  /\ pc' = "building"
  /\ attempts' = attempts + 1
  /\ res' = NoResponse
  /\ received' = 0
  /\ fetchSignal' = "none"
  /\ cause' = "none"
  /\ UNCHANGED << opts, client, params, fs, signal, attempt, lastError, thrown,
                  result, timerArmed, listeners, backoffMs, destExists, destBytes,
                  fetchCalls, sleeps, failures, allTransient, inflight, calls, srcContent, uploads, streamState >>

\* the loop condition holds: sendConvertRequest is called
LoopEnter ==
  /\ pc = "loop"
  /\ LoopCondition(attempt, client.maxRetries)
  /\ pc' = "building"
  /\ attempts' = attempts + 1
  /\ res' = NoResponse
  /\ received' = 0
  /\ fetchSignal' = "none"
  /\ cause' = "none"
  /\ UNCHANGED << opts, client, params, fs, signal, attempt, lastError, thrown,
                  result, timerArmed, listeners, backoffMs, destExists, destBytes,
                  fetchCalls, sleeps, failures, allTransient, inflight, calls, srcContent, uploads, streamState >>

\* the loop condition fails: throw lastError ?? new Office2PDFError(...)
LoopExit ==
  /\ pc = "loop"
  /\ ~LoopCondition(attempt, client.maxRetries)
  /\ pc' = "threw"
  /\ thrown' = IF lastError.type # "none" THEN lastError
               ELSE Office2PDFError("Unexpected conversion failure", "UNKNOWN",
                                    UndefinedNum, Undefined, NoDetails)
  /\ UNCHANGED << opts, client, params, fs, signal, attempt, lastError, result, res,
                  received, timerArmed, listeners, fetchSignal, backoffMs,
                  destExists, destBytes, attempts, fetchCalls, sleeps, failures,
                  cause, allTransient, inflight, calls, srcContent, uploads, streamState >>

\* a faulty variant: the timer is cleared but merged.cleanup() is not called
FinallyNoCleanup ==
  /\ timerArmed' = FALSE
  /\ listeners' = listeners

\* a faulty variant: cleanup removes onAbort from the timer's signal only
FinallyKeepsCallerListener ==
  /\ timerArmed' = FALSE
  /\ listeners' = listeners \cap {"caller"}

\* the finally block of sendConvertRequest: clearTimeout and merged.cleanup()
Finally ==
  /\ timerArmed' = FALSE
  /\ listeners' = {}

\* the catch block of convert, entered with err thrown by sendConvertRequest
\* (whose finally block has run): it sleeps and continues, or throws
Catch(err, why, transient) ==
  /\ Finally
  /\ lastError' = normalizeError(err)
  /\ failures' = failures + 1
  /\ inflight' = IF pc = "building" THEN inflight ELSE inflight \ {fetchCalls}
  /\ cause' = why
  /\ allTransient' = (allTransient /\ transient)
  /\ IF ShouldRetry(attempt, client.maxRetries, normalizeError(err))
       THEN /\ pc' = "sleeping"
            /\ \E j \in Jitters : backoffMs' = getBackoffMs(attempt, j)
            /\ sleeps' = sleeps + 1
            /\ thrown' = thrown
       ELSE /\ pc' = "threw"
            /\ thrown' = normalizeError(err)
            /\ backoffMs' = 0
            /\ sleeps' = sleeps

\* sendConvertRequest returns r to convert, which returns it
Return(r) ==
  /\ Finally
  /\ pc' = "returned"
  /\ result' = r
  /\ inflight' = inflight \ {fetchCalls}
  /\ streamState' = IF r.kind = "stream" THEN "live" ELSE streamState

\* the sleep ends: attempt++ and back to the loop condition
SleepEnds ==
  /\ pc = "sleeping"
  /\ pc' = "loop"
  /\ attempt' = attempt + 1
  /\ backoffMs' = 0
  /\ UNCHANGED << opts, client, params, fs, signal, lastError, thrown, result, res,
                  received, timerArmed, listeners, fetchSignal, destExists,
                  destBytes, attempts, fetchCalls, sleeps, failures, cause,
                  allTransient, inflight, calls, srcContent, uploads, streamState >>

(* -------------------------- sendConvertRequest -------------------------- *)

\* a faulty variant: onAbort is added to the caller's signal only, the timer's
\* signal is left out of the merge
mergeAbortSignalsCallerOnly(sig) ==
  IF sig = "none" THEN [signal |-> "timer", listeners |-> {}]
  ELSE IF sig \in AbortReasons THEN [signal |-> "caller", listeners |-> {}]
  ELSE [signal |-> "merged", listeners |-> {"caller"}]

\* mergeAbortSignals(params.signal, timeoutCtrl.signal): the signal handed to
\* fetch and the signals that get an onAbort listener
mergeAbortSignals(sig) ==
  IF sig = "none" THEN [signal |-> "timer", listeners |-> {}]
  ELSE IF sig \in AbortReasons THEN [signal |-> "caller", listeners |-> {}]
  ELSE [signal |-> "merged", listeners |-> {"caller", "timer"}]

\* no form data
NoForm == [file |-> "", output |-> ""]

\* a faulty variant: the form built for the first attempt is kept and sent
\* again by the later attempts
buildFormDataCached(p, content) ==
  IF uploads # << >> THEN uploads[1]
  ELSE [file |-> content, output |-> "pdf"]

\* buildFormData: the file part is read from params.filePath, whose content
\* on disk is content, and output is "pdf" unless the caller set it
buildFormData(p, content) == [file |-> content, output |-> "pdf"]

\* buildFormData succeeded: the timer is set, the signals are merged and
\* fetch is called
BuildOk ==
  /\ pc = "building"
  /\ pc' = "fetching"
  /\ timerArmed' = TRUE
  /\ fetchSignal' = mergeAbortSignals(signal).signal
  /\ listeners' = mergeAbortSignals(signal).listeners
  /\ fetchCalls' = fetchCalls + 1
  /\ inflight' = inflight \cup {fetchCalls + 1}
  /\ uploads' = Append(uploads, buildFormData(params, srcContent))
  /\ UNCHANGED << opts, client, params, fs, signal, attempt, lastError, thrown,
                  result, res, received, backoffMs, destExists, destBytes, attempts,
                  sleeps, failures, cause, allTransient, calls, srcContent, streamState >>

\* fileFromPath rejects: the source file is gone or unreadable by now
BuildFail ==
  /\ pc = "building"
  /\ Catch(JsError("Error", "ENOENT: no such file or directory"), "build", FALSE)
  /\ UNCHANGED << opts, client, params, fs, signal, attempt, result, res, received,
                  fetchSignal, destExists, destBytes, attempts, fetchCalls, calls, srcContent, uploads, streamState >>

\* signal.reason of the caller's signal
AbortReason(sig) ==
  IF sig = "AbortError" THEN DOMException("AbortError", "This operation was aborted")
  ELSE IF sig = "Error" THEN JsError("Error", "cancelled by the caller")
  ELSE NonError

\* what fetch rejects with when timeoutCtrl or the merged controller aborts
\* (controller.abort() without a reason)
AbortError == DOMException("AbortError", "This operation was aborted")

\* fetch was handed the caller's already aborted signal: it rejects with the
\* signal's reason
FetchRejectsAborted ==
  /\ pc = "fetching"
  /\ fetchSignal = "caller"
  /\ Catch(AbortReason(signal), "preaborted", FALSE)
  /\ UNCHANGED << opts, client, params, fs, signal, attempt, result, res, received,
                  fetchSignal, destExists, destBytes, attempts, fetchCalls, calls, srcContent, uploads, streamState >>

\* the claim's transient HTTP statuses
TransientStatus(st) == st \in {408, 429} \cup (500..599)

\* a response arrives and handleResponse throws: a non-2xx status, or a
\* missing body in stream or disk mode
RespondThrow(R) ==
  /\ pc = "fetching"
  /\ fetchSignal # "caller"
  /\ \E r \in R :
       /\ handleResponse(r, params).next = "throw"
       /\ res' = r
       /\ Catch(handleResponse(r, params).err,
                IF Ok(r) THEN "nobody" ELSE "http",
                ~Ok(r) /\ TransientStatus(r.status))
  /\ UNCHANGED << opts, client, params, fs, signal, attempt, result, received,
                  fetchSignal, destExists, destBytes, attempts, fetchCalls, calls, srcContent, uploads, streamState >>

\* a 2xx response arrives in stream mode: handleResponse returns res.body
RespondStream(R) ==
  /\ pc = "fetching"
  /\ fetchSignal # "caller"
  /\ \E r \in R :
       /\ handleResponse(r, params).next = "return"
       /\ res' = r
       /\ Return(handleResponse(r, params).result)
  /\ UNCHANGED << opts, client, params, fs, signal, attempt, lastError, thrown,
                  received, fetchSignal, backoffMs, destExists, destBytes, attempts,
                  fetchCalls, sleeps, failures, cause, allTransient, calls, srcContent, uploads >>

\* a 2xx response arrives in buffer mode: handleResponse awaits arrayBuffer()
RespondBuffer(R) ==
  /\ pc = "fetching"
  /\ fetchSignal # "caller"
  /\ \E r \in R :
       /\ handleResponse(r, params).next = "arrayBuffer"
       /\ res' = r
  /\ pc' = "reading"
  /\ received' = 0
  /\ UNCHANGED << opts, client, params, fs, signal, attempt, lastError, thrown,
                  result, timerArmed, listeners, fetchSignal, backoffMs, destExists,
                  destBytes, attempts, fetchCalls, sleeps, failures, cause,
                  allTransient, inflight, calls, srcContent, uploads, streamState >>

\* a 2xx response arrives in disk mode: streamToFile opens the destination
\* (creating or truncating it) and awaits the pipeline
RespondFile(R) ==
  /\ pc = "fetching"
  /\ fetchSignal # "caller"
  /\ Writable(Dirname(params.downloadToPath), fs)
  /\ \E r \in R :
       /\ handleResponse(r, params).next = "streamToFile"
       /\ res' = r
  /\ pc' = "piping"
  /\ received' = 0
  /\ destExists' = TRUE
  /\ destBytes' = <<>>
  /\ UNCHANGED << opts, client, params, fs, signal, attempt, lastError, thrown,
                  result, timerArmed, listeners, fetchSignal, backoffMs, attempts,
                  fetchCalls, sleeps, failures, cause, allTransient, inflight, calls, srcContent, uploads, streamState >>

\* a 2xx response arrives in disk mode and the destination cannot be opened
\* (its directory is not writable): the pipeline rejects
RespondFileOpenFails(R) ==
  /\ pc = "fetching"
  /\ fetchSignal # "caller"
  /\ ~Writable(Dirname(params.downloadToPath), fs)
  /\ \E r \in R :
       /\ handleResponse(r, params).next = "streamToFile"
       /\ res' = r
  /\ Catch(JsError("Error", "EACCES: permission denied"), "write", FALSE)
  /\ UNCHANGED << opts, client, params, fs, signal, attempt, result, received,
                  fetchSignal, destExists, destBytes, attempts, fetchCalls, calls, srcContent, uploads, streamState >>

\* the request is in flight: fetch, arrayBuffer() or the pipeline is awaited
InFlight == pc \in {"fetching", "reading", "piping"} /\ fetchSignal # "caller"

\* the transport fails (connection refused, reset, body terminated)
NetworkFail ==
  /\ InFlight
  /\ Catch(JsError("TypeError", IF pc = "fetching" THEN "fetch failed" ELSE "terminated"),
           "network", TRUE)
  /\ UNCHANGED << opts, client, params, fs, signal, attempt, result, res, received,
                  fetchSignal, destExists, destBytes, attempts, fetchCalls, calls, srcContent, uploads, streamState >>

\* the timeout fires: timeoutCtrl.abort(), directly or through the merged
\* controller, rejects what is awaited
TimerFires ==
  /\ InFlight
  /\ timerArmed
  /\ fetchSignal = "timer" \/ (fetchSignal = "merged" /\ "timer" \in listeners)
  /\ Catch(AbortError, "timer", TRUE)
  /\ UNCHANGED << opts, client, params, fs, signal, attempt, result, res, received,
                  fetchSignal, destExists, destBytes, attempts, fetchCalls, calls, srcContent, uploads, streamState >>

\* the caller aborts its signal while the request is in flight: onAbort aborts
\* the merged controller
CallerAbortsInFlight ==
  /\ InFlight
  /\ signal = "idle"
  /\ "caller" \in listeners
  /\ \E reason \in AbortReasons : signal' = reason
  /\ Catch(AbortError, "cancel", TRUE)
  /\ UNCHANGED << opts, client, params, fs, attempt, result, res, received,
                  fetchSignal, destExists, destBytes, attempts, fetchCalls, calls, srcContent, uploads, streamState >>

\* the caller aborts its signal while no request is in flight
CallerAbortsBetween ==
  /\ pc \in {"loop", "building", "sleeping"}
  /\ signal = "idle"
  /\ \E reason \in AbortReasons : signal' = reason
  /\ UNCHANGED << pc, opts, client, params, fs, attempt, lastError, thrown, result,
                  res, received, timerArmed, listeners, fetchSignal, backoffMs,
                  destExists, destBytes, attempts, fetchCalls, sleeps, failures,
                  cause, allTransient, inflight, calls, srcContent, uploads, streamState >>

\* one more byte of the body arrives; the pipeline writes it to the file
BodyChunk ==
  /\ pc \in {"reading", "piping"}
  /\ received < Len(res.bytes)
  /\ received' = received + 1
  /\ destBytes' = IF pc = "piping" THEN Append(destBytes, res.bytes[received + 1])
                  ELSE destBytes
  /\ UNCHANGED << pc, opts, client, params, fs, signal, attempt, lastError, thrown,
                  result, res, timerArmed, listeners, fetchSignal, backoffMs,
                  destExists, attempts, fetchCalls, sleeps, failures, cause,
                  allTransient, inflight, calls, srcContent, uploads, streamState >>

\* the body ends: arrayBuffer() resolves, or the pipeline finishes
BodyDone ==
  /\ pc \in {"reading", "piping"}
  /\ received = Len(res.bytes)
  /\ Return(IF pc = "reading"
              THEN BufferResult(res, SubSeq(res.bytes, 1, received))
              ELSE DownloadedResult(res, params))
  /\ UNCHANGED << opts, client, params, fs, signal, attempt, lastError, thrown, res,
                  received, fetchSignal, backoffMs, destExists, destBytes, attempts,
                  fetchCalls, sleeps, failures, cause, allTransient, calls, srcContent, uploads >>

\* writing the destination file fails (disk full, file removed)
WriteFails ==
  /\ pc = "piping"
  /\ Catch(JsError("Error", "ENOSPC: no space left on device"), "write", FALSE)
  /\ UNCHANGED << opts, client, params, fs, signal, attempt, result, res, received,
                  fetchSignal, destExists, destBytes, attempts, fetchCalls, calls, srcContent, uploads, streamState >>

\* the caller fires its signal after convert has returned a stream result:
\* the stream's request is aborted if an onAbort listener is still on the
\* signal (it aborts the merged controller, whose signal fetch was given)
CallerAbortsStream ==
  /\ pc = "returned"
  /\ result.kind = "stream"
  /\ signal = "idle"
  /\ \E reason \in AbortReasons : signal' = reason
  /\ streamState' = IF "caller" \in listeners /\ fetchSignal = "merged"
                      THEN "aborted" ELSE streamState
  /\ UNCHANGED << pc, opts, client, params, fs, attempt, lastError, thrown, result,
                  res, received, timerArmed, listeners, fetchSignal, backoffMs,
                  destExists, destBytes, attempts, fetchCalls, sleeps, failures,
                  inflight, cause, allTransient, calls, srcContent, uploads >>

(* ---------------------------- specification ---------------------------- *)

Next ==
  \/ Construct
  \/ Convert
  \/ LoopEnter
  \/ LoopExit
  \/ BuildOk
  \/ BuildFail
  \/ FetchRejectsAborted
  \/ RespondThrow(Responses(fetchCalls))
  \/ RespondStream(Responses(fetchCalls))
  \/ RespondBuffer(Responses(fetchCalls))
  \/ RespondFile(Responses(fetchCalls))
  \/ RespondFileOpenFails(Responses(fetchCalls))
  \/ NetworkFail
  \/ TimerFires
  \/ CallerAbortsInFlight
  \/ CallerAbortsBetween
  \/ BodyChunk
  \/ BodyDone
  \/ WriteFails
  \/ SleepEnds
  \/ CallerAbortsStream

Spec == Init /\ [][Next]_vars

\* the event loop runs every continuation that is ready, a timeout timer
\* that stays pending fires and a backoff sleep ends; the server owes nothing
SpecLive ==
  /\ Init
  /\ [][Next]_vars
  /\ WF_vars(LoopEnter)
  /\ WF_vars(LoopExit)
  /\ WF_vars(BuildOk \/ BuildFail)
  /\ WF_vars(FetchRejectsAborted)
  /\ WF_vars(TimerFires)
  /\ WF_vars(SleepEnds)

(* ------------------- the source file changes on disk ------------------- *)

\* the contents the source file can have
Contents == {"v1", "v2"}

\* another process rewrites the source file while no request of the call is
\* being sent: before an attempt builds its form, or during a backoff sleep
SourceChanges ==
  /\ pc \in {"loop", "building", "sleeping"}
  /\ \E c \in Contents \ {srcContent} : srcContent' = c
  /\ UNCHANGED << pc, opts, client, params, fs, signal, attempt, lastError, thrown,
                  result, res, received, timerArmed, listeners, fetchSignal,
                  backoffMs, destExists, destBytes, attempts, fetchCalls, sleeps,
                  failures, inflight, cause, allTransient, calls, uploads, streamState >>

\* a client has been constructed, with the largest retry count or with NaN
InitSrc ==
  /\ pc = "idle"
  /\ opts \in { o \in Options : /\ ~ApiKeyMissing(o)
                                 /\ o.maxRetries \in {NaN, Num(MaxRetriesOpt)} }
  /\ client = NewClient(opts)
  /\ params = NoParams
  /\ fs = NoFs
  /\ signal = "none"
  /\ attempt = 0
  /\ lastError = NoError
  /\ thrown = NoError
  /\ result = NoResult
  /\ res = NoResponse
  /\ received = 0
  /\ timerArmed = FALSE
  /\ listeners = {}
  /\ fetchSignal = "none"
  /\ backoffMs = 0
  /\ destExists = FALSE
  /\ destBytes = <<>>
  /\ attempts = 0
  /\ fetchCalls = 0
  /\ sleeps = 0
  /\ failures = 0
  /\ inflight = {}
  /\ cause = "none"
  /\ allTransient = TRUE
  /\ calls = NoCalls
  /\ srcContent \in Contents
  /\ uploads = << >>
  /\ streamState = "none"

NextSrc ==
  \/ Convert
  \/ LoopEnter
  \/ LoopExit
  \/ BuildOk
  \/ BuildFail
  \/ FetchRejectsAborted
  \/ RespondThrow(Responses(fetchCalls))
  \/ RespondStream(Responses(fetchCalls))
  \/ RespondBuffer(Responses(fetchCalls))
  \/ RespondFile(Responses(fetchCalls))
  \/ RespondFileOpenFails(Responses(fetchCalls))
  \/ NetworkFail
  \/ TimerFires
  \/ CallerAbortsInFlight
  \/ CallerAbortsBetween
  \/ BodyChunk
  \/ BodyDone
  \/ WriteFails
  \/ SleepEnds
  \/ CallerAbortsStream
  \/ SourceChanges

SpecSrc == InitSrc /\ [][NextSrc]_vars

(* ------------------- handleResponse on any response -------------------- *)

\* the status codes a response can carry
StatusCodes == 100..999

ContentTypes ==
  {Null, "application/pdf", "application/json", "application/json; charset=utf-8",
   "text/html"}

\* the JSON values an error body parses to: objects, and the literal null
JsonBodies ==
  { JsonObject(m, d) :
      m \in {JsonMissing, JsonNumber, JsonString("Busy")},
      d \in {JsonMissing, JsonString("bad token")} }
  \cup {NullJson}

\* every status with a few headers and bodies, and a few statuses with every
\* header and body
AllResponses ==
  { Response(st, ct, x, cf, hb, IF hb THEN Body ELSE <<>>, TRUE, j) :
      st \in StatusCodes, ct \in {Null, "application/json"},
      x \in {Null, "rid_1"}, cf \in {Null, "ray_1"}, hb \in BOOLEAN,
      j \in {EmptyJson} }
  \cup
  { Response(st, ct, x, cf, TRUE, Body, ps, j) :
      st \in {200, 401, 502}, ct \in ContentTypes,
      x \in {Null, "rid_1"}, cf \in {Null, "ray_1"}, ps \in BOOLEAN,
      j \in JsonBodies }

\* a client without retries has validated a call without a signal and has its
\* first request in flight
InitResp ==
  /\ pc = "fetching"
  /\ opts = [apiKey |-> " k ", maxRetries |-> Num(0)]
  /\ client = NewClient(opts)
  /\ params \in {p \in Params : ~p.hasSignal}
  /\ fs \in FileSystems(params)
  /\ validateParams(params, fs).type = "none"
  /\ signal = "none"
  /\ attempt = 0
  /\ lastError = NoError
  /\ thrown = NoError
  /\ result = NoResult
  /\ res = NoResponse
  /\ received = 0
  /\ timerArmed = TRUE
  /\ listeners = mergeAbortSignals("none").listeners
  /\ fetchSignal = mergeAbortSignals("none").signal
  /\ backoffMs = 0
  /\ destExists = FALSE
  /\ destBytes = <<>>
  /\ attempts = 1
  /\ fetchCalls = 1
  /\ sleeps = 0
  /\ failures = 0
  /\ inflight = {1}
  /\ cause = "none"
  /\ allTransient = TRUE
  /\ calls = NoCalls
  /\ srcContent = "v1"
  /\ uploads = << buildFormData(params, srcContent) >>
  /\ streamState = "none"

NextResp ==
  \/ RespondThrow(AllResponses)
  \/ RespondStream(AllResponses)
  \/ RespondBuffer(AllResponses)
  \/ RespondFile(AllResponses)
  \/ RespondFileOpenFails(AllResponses)
  \/ BodyChunk
  \/ BodyDone

SpecResp == InitResp /\ [][NextResp]_vars

(* ------------------ two convert calls on one client -------------------- *)

\* the two calls that run concurrently
CallIds == {1, 2}

\* the variables of the single call, which do not move while two calls run
singleCallVars ==
  << pc, opts, params, fs, signal, attempt, lastError, thrown, result, res,
     received, timerArmed, listeners, fetchSignal, backoffMs, destExists,
     destBytes, attempts, fetchCalls, sleeps, failures, inflight, cause,
     allTransient, srcContent, uploads, streamState >>

\* the locals of one convert call; log is the history of what its
\* sendConvertRequest calls resolved or rejected with
NewCall ==
  [pc |-> "idle", params |-> NoParams, attempt |-> 0, lastError |-> NoError,
   thrown |-> NoError, result |-> NoResult, backoffMs |-> 0, sleeps |-> 0,
   log |-> << >>]

\* the requests two concurrent calls make
CallParams ==
  { p \in Params : /\ ~p.hasSignal
                   /\ ~p.asWebStream
                   /\ p.downloadToPath = Undefined
                   /\ p.filePath \in {"", "a.docx"} }

\* what a sendConvertRequest of call c resolves or rejects with: the server
\* tags its answers to call c with the request id Rid(c)
SendOutcomes(c) ==
  { [ok |-> TRUE, err |-> NoError,
     result |-> BufferResult(Response(200, "application/pdf", Rid(c), Null, TRUE,
                                      Body, TRUE, EmptyJson), Body)] }
  \cup
  { [ok |-> FALSE, err |-> e, result |-> NoResult] :
      e \in { HttpError(Response(st, "application/json", Rid(c), Null, TRUE, << >>,
                                 TRUE, EmptyJson)) : st \in {401, 503} }
            \cup {AbortError} }

\* a faulty variant: the loop counter is a field of the client, shared by the
\* calls
AttemptOfShared(c) == calls[1].attempt + calls[2].attempt

\* the local variable attempt of call c
AttemptOf(c) == calls[c].attempt

InitTwo ==
  /\ pc = "idle"
  /\ opts \in { o \in Options : /\ ~ApiKeyMissing(o)
                                 /\ o.maxRetries \in {NaN, Num(1), Num(MaxRetriesOpt)} }
  /\ client = NewClient(opts)
  /\ params = NoParams
  /\ fs = NoFs
  /\ signal = "none"
  /\ attempt = 0
  /\ lastError = NoError
  /\ thrown = NoError
  /\ result = NoResult
  /\ res = NoResponse
  /\ received = 0
  /\ timerArmed = FALSE
  /\ listeners = {}
  /\ fetchSignal = "none"
  /\ backoffMs = 0
  /\ destExists = FALSE
  /\ destBytes = <<>>
  /\ attempts = 0
  /\ fetchCalls = 0
  /\ sleeps = 0
  /\ failures = 0
  /\ inflight = {}
  /\ cause = "none"
  /\ allTransient = TRUE
  /\ calls = [c \in CallIds |-> NewCall]
  /\ srcContent = "v1"
  /\ uploads = << >>
  /\ streamState = "none"

\* call c of convert up to the loop
ConvertOf(c) ==
  /\ calls[c].pc = "idle"
  /\ \E p \in CallParams :
       calls' = [calls EXCEPT ![c] =
                   IF validateParams(p, fs).type # "none"
                     THEN [@ EXCEPT !.params = p, !.pc = "threw",
                                    !.thrown = validateParams(p, fs)]
                     ELSE [@ EXCEPT !.params = p, !.pc = "loop"]]
  /\ UNCHANGED << client, singleCallVars >>

\* the loop condition of call c holds: it calls sendConvertRequest
LoopEnterOf(c) ==
  /\ calls[c].pc = "loop"
  /\ LoopCondition(AttemptOf(c), client.maxRetries)
  /\ calls' = [calls EXCEPT ![c].pc = "sending"]
  /\ UNCHANGED << client, singleCallVars >>

\* the loop condition of call c fails
LoopExitOf(c) ==
  /\ calls[c].pc = "loop"
  /\ ~LoopCondition(AttemptOf(c), client.maxRetries)
  /\ calls' = [calls EXCEPT ![c] =
                 [@ EXCEPT !.pc = "threw",
                           !.thrown =
                             IF calls[c].lastError.type # "none"
                               THEN calls[c].lastError
                               ELSE Office2PDFError("Unexpected conversion failure",
                                                    "UNKNOWN", UndefinedNum,
                                                    Undefined, NoDetails)]]
  /\ UNCHANGED << client, singleCallVars >>

\* the sendConvertRequest of call c resolves: convert returns its result
SendReturnsOf(c) ==
  /\ calls[c].pc = "sending"
  /\ \E o \in SendOutcomes(c) :
       /\ o.ok
       /\ calls' = [calls EXCEPT ![c] =
                      [@ EXCEPT !.pc = "returned", !.result = o.result,
                                !.log = Append(@, o)]]
  /\ UNCHANGED << client, singleCallVars >>

\* the sendConvertRequest of call c rejects: the catch block of convert
SendThrowsOf(c) ==
  /\ calls[c].pc = "sending"
  /\ \E o \in SendOutcomes(c) :
       /\ ~o.ok
       /\ IF ShouldRetry(AttemptOf(c), client.maxRetries, normalizeError(o.err))
            THEN \E j \in Jitters :
                   calls' = [calls EXCEPT ![c] =
                               [@ EXCEPT !.pc = "sleeping",
                                         !.lastError = normalizeError(o.err),
                                         !.backoffMs = getBackoffMs(AttemptOf(c), j),
                                         !.sleeps = @ + 1,
                                         !.log = Append(@, o)]]
            ELSE calls' = [calls EXCEPT ![c] =
                             [@ EXCEPT !.pc = "threw",
                                       !.lastError = normalizeError(o.err),
                                       !.thrown = normalizeError(o.err),
                                       !.log = Append(@, o)]]
  /\ UNCHANGED << client, singleCallVars >>

\* the sleep of call c ends: attempt++
SleepEndsOf(c) ==
  /\ calls[c].pc = "sleeping"
  /\ calls' = [calls EXCEPT ![c] =
                 [@ EXCEPT !.pc = "loop", !.attempt = @ + 1, !.backoffMs = 0]]
  /\ UNCHANGED << client, singleCallVars >>

NextTwo ==
  \/ \E c \in CallIds : ConvertOf(c)
  \/ \E c \in CallIds : LoopEnterOf(c)
  \/ \E c \in CallIds : LoopExitOf(c)
  \/ \E c \in CallIds : SendReturnsOf(c)
  \/ \E c \in CallIds : SendThrowsOf(c)
  \/ \E c \in CallIds : SleepEndsOf(c)

SpecTwo == InitTwo /\ [][NextTwo]_vars

(* ------------------------------- claims -------------------------------- *)

\* convert has been called
Called == pc \notin {"new", "ctorThrew", "idle"}

\* convert has completed
Done == pc \in {"returned", "threw"}

\* the request id the claims expect for response r
ClaimedRequestId(r) ==
  IF r.xRequestId # Null THEN r.xRequestId
  ELSE IF r.cfRay # Null THEN r.cfRay
  ELSE Undefined

\* the request ids the server gave its k-th request
IdsOfRequest(k) == {Undefined, Rid(k), Ray(k)}

\* C1: every convert call that passes validation starts at least one upload
\* attempt and issues at most max(0, maxRetries) + 1 HTTP requests, where a
\* negative configured maxRetries behaves as 0 (and an omitted one as 2).
C1_AttemptBounds ==
  (Done /\ validateParams(params, fs).type = "none") =>
    /\ attempts >= 1
    /\ opts.maxRetries.kind = "int" =>
         fetchCalls <= (IF opts.maxRetries.n < 0 THEN 0 ELSE opts.maxRetries.n) + 1
    /\ opts.maxRetries.kind = "undefined" => fetchCalls <= DEFAULT_MAX_RETRIES + 1

\* C1, for a configured maxRetries that is a number: the statement of C1
\* holds in every state, also while the call is in progress.
C1_AttemptBoundsOfNumbers ==
  (Called /\ validateParams(params, fs).type = "none"
     /\ opts.maxRetries.kind # "NaN") =>
    /\ Done => attempts >= 1
    /\ fetchCalls <= attempts
    /\ attempts <=
         (IF opts.maxRetries.kind = "undefined" THEN DEFAULT_MAX_RETRIES
          ELSE IF opts.maxRetries.n < 0 THEN 0 ELSE opts.maxRetries.n) + 1

\* C2: with maxRetries = N, when every failed attempt so far was a transient
\* failure of its request (timeout, transport failure, 408, 429, 5xx) and
\* there are at most N of them, convert has not thrown, and when the next
\* attempt gets its 2xx response convert returns a result built from that
\* response after exactly (failed attempts + 1) HTTP requests: N + 1 of them
\* after N failures.
C2_SuccessAfterTransientFailures ==
  /\ (allTransient /\ client.maxRetries.kind = "int"
        /\ failures >= 1 /\ failures <= client.maxRetries.n) => pc # "threw"
  /\ (pc = "returned" /\ allTransient) =>
       /\ attempts = failures + 1
       /\ fetchCalls = failures + 1
       /\ attempt = failures
       /\ Ok(res)
       /\ result.kind # "none"
       /\ result.requestId = ClaimedRequestId(res)
       /\ result.requestId \in IdsOfRequest(failures + 1)

C2_Witness ==
  /\ pc = "returned"
  /\ allTransient
  /\ client.maxRetries = Num(2)
  /\ failures = 2
  /\ fetchCalls = 3
  /\ result.requestId = Rid(3)

\* the error kind the claims expect for a transient HTTP status
ClaimedTransientKind(st) ==
  IF st = 429 THEN "RATE_LIMITED"
  ELSE IF st = 408 THEN "INVALID_REQUEST"
  ELSE "SERVER_ERROR"

\* C3: with maxRetries = N, once N + 1 attempts have each failed with a
\* transient failure, convert has thrown after exactly N + 1 attempts (and N
\* sleeps), and the error thrown is the one of the last attempt: its kind,
\* its status and its request id, which is an id of request N + 1.
C3_LastErrorAfterExhaustion ==
  (allTransient /\ client.maxRetries.kind = "int"
     /\ failures = client.maxRetries.n + 1) =>
    /\ pc = "threw"
    /\ attempts = failures
    /\ fetchCalls = failures
    /\ sleeps = failures - 1
    /\ thrown.type = "Office2PDFError"
    /\ cause \in {"http", "network", "timer", "cancel"}
    /\ cause = "http" =>
         /\ thrown.code = ClaimedTransientKind(res.status)
         /\ thrown.status = Num(res.status)
         /\ thrown.requestId = ClaimedRequestId(res)
         /\ thrown.requestId \in IdsOfRequest(failures)
    /\ cause = "network" =>
         /\ thrown.code = "NETWORK_ERROR"
         /\ thrown.status = UndefinedNum
         /\ thrown.requestId = Undefined
    /\ cause \in {"timer", "cancel"} =>
         /\ thrown.code = "TIMEOUT"
         /\ thrown.status = UndefinedNum
         /\ thrown.requestId = Undefined

C3_Witness ==
  /\ pc = "threw"
  /\ allTransient
  /\ client.maxRetries = Num(2)
  /\ failures = 3
  /\ cause = "http"
  /\ res.status = 503
  /\ thrown.code = "SERVER_ERROR"
  /\ thrown.requestId = Ray(3)

\* C4: for every maxRetries, when the first attempt receives a non-2xx
\* status that is not 408, not 429 and not in 500..599, convert throws the
\* error of that response after exactly one HTTP request and no backoff sleep.
C4_NoRetryOfOtherStatuses ==
  (failures = 1 /\ cause = "http" /\ ~Ok(res)
     /\ res.status \notin ({408, 429} \cup (500..599))) =>
    /\ pc = "threw"
    /\ attempts = 1
    /\ fetchCalls = 1
    /\ sleeps = 0
    /\ backoffMs = 0
    /\ thrown.status = Num(res.status)

C4_Witness ==
  /\ pc = "threw"
  /\ client.maxRetries = Num(2)
  /\ failures = 1
  /\ cause = "http"
  /\ res.status = 401
  /\ fetchCalls = 1
  /\ sleeps = 0

\* the request fails validation as C5 lists it: an empty file path, an
\* unreadable source file, or both asWebStream and downloadToPath set
ClaimedInvalid ==
  \/ params.filePath = ""
  \/ ~fs.srcReadable
  \/ (params.asWebStream /\ params.downloadToPath \notin {Undefined, ""})

\* C5: a convert call whose request fails validation throws INVALID_REQUEST
\* before any HTTP request is issued and is never retried, whatever maxRetries.
C5_ValidationFailsFirst ==
  (Called /\ ClaimedInvalid) =>
    /\ pc = "threw"
    /\ thrown.type = "Office2PDFError"
    /\ thrown.code = "INVALID_REQUEST"
    /\ attempts = 0
    /\ fetchCalls = 0
    /\ sleeps = 0

C5_Witness ==
  /\ pc = "threw"
  /\ client.maxRetries = Num(2)
  /\ params.filePath = "a.docx"
  /\ fs.srcReadable
  /\ params.asWebStream
  /\ params.downloadToPath = "rw/out.pdf"
  /\ thrown.code = "INVALID_REQUEST"
  /\ fetchCalls = 0

\* the error kind C6 gives for a status in 400..599
ClaimedKind(st) ==
  CASE st = 401 -> "UNAUTHORIZED"
    [] st = 403 -> "FORBIDDEN"
    [] st = 404 -> "NOT_FOUND"
    [] st = 429 -> "RATE_LIMITED"
    [] st = 413 -> "QUOTA_EXCEEDED"
    [] st \in 400..499 /\ st \notin {401, 403, 404, 429, 413} -> "INVALID_REQUEST"
    [] st \in 500..599 -> "SERVER_ERROR"
    [] OTHER -> "none"

\* C6: for every status in 400..599 the failed attempt's error has the kind
\* of the table (401, 403, 404, 429, 413, other 4xx, 5xx), whatever the body,
\* and carries the status and the response's request id.
C6_StatusToKind ==
  (cause = "http" /\ res.status \in 400..599) =>
    /\ lastError.type = "Office2PDFError"
    /\ lastError.code = ClaimedKind(res.status)
    /\ lastError.status = Num(res.status)
    /\ lastError.requestId = ClaimedRequestId(res)
    /\ pc = "threw" => thrown = lastError

C6_Witness ==
  /\ cause = "http"
  /\ res.status = 413
  /\ res.xRequestId = Null
  /\ res.cfRay = "ray_1"
  /\ lastError.code = "QUOTA_EXCEEDED"
  /\ lastError.status = Num(413)
  /\ lastError.requestId = "ray_1"

\* C7: for every non-2xx status that is neither a 4xx nor a 5xx (below 400
\* outside 200..299, or 600 and above) the error kind is UNKNOWN.
C7_OtherStatusesUnknown ==
  (cause = "http" /\ ~Ok(res) /\ res.status \notin 400..599) =>
    lastError.code = "UNKNOWN"

\* C8: a valid request answered with a 2xx response that has a body is not
\* failed by handleResponse (only writing the file can still fail), and the
\* result convert returns is the one variant of the delivery mode (stream
\* for asWebStream, else downloaded with the path for downloadToPath, else
\* buffer with all the body's bytes), with the content-type header
\* (application/pdf when absent) and x-request-id, else cf-ray, else nothing.
C8_ResultOfDeliveryMode ==
  /\ (Ok(res) /\ res.hasBody /\ pc \notin {"reading", "piping", "returned"}) =>
       cause = "write"
  /\ pc = "returned" =>
       /\ Ok(res)
       /\ result.kind =
            (IF params.asWebStream THEN "stream"
             ELSE IF params.downloadToPath \notin {Undefined, ""} THEN "downloaded"
             ELSE "buffer")
       /\ result.kind = "stream" => res.hasBody /\ result.stream = res.bytes
       /\ result.kind = "downloaded" =>
            /\ res.hasBody
            /\ result.path = params.downloadToPath
            /\ destExists /\ destBytes = res.bytes
       /\ result.kind = "buffer" => result.buffer = res.bytes
       /\ result.contentType =
            (IF res.contentType = Null THEN "application/pdf" ELSE res.contentType)
       /\ result.requestId = ClaimedRequestId(res)

C8_Witness ==
  /\ pc = "returned"
  /\ result.kind = "downloaded"
  /\ result.path = "rw/out.pdf"
  /\ res.contentType = Null
  /\ result.contentType = "application/pdf"
  /\ res.xRequestId = "rid_1"
  /\ res.cfRay = "ray_1"
  /\ result.requestId = "rid_1"

C10_OnlyStructuredErrors ==
  /\ pc = "threw" =>
       /\ thrown.type = "Office2PDFError"
       /\ thrown.code \in Codes
       /\ thrown.message # Undefined
       /\ result = NoResult
  /\ pc # "threw" => thrown = NoError

C10_Witness ==
  /\ pc = "threw"
  /\ cause = "preaborted"
  /\ signal = "other"
  /\ thrown.code = "UNKNOWN"
  /\ thrown.message = "Unknown error"

\* C11: whenever convert throws, whatever the delivery mode and however the
\* attempts failed (a timeout or a stream failure after the 2xx response
\* started arriving included), the destination path has not been created or
\* modified by the call.
C11_NoWriteUnlessSuccess ==
  pc = "threw" => (~destExists /\ destBytes = <<>>)

\* C11, the part the code keeps: outside disk mode convert never touches the
\* file system, and a disk-mode call that returns has written the whole body.
C11_WriteOnlyInDiskMode ==
  /\ ~DownloadRequested(params) => (~destExists /\ destBytes = <<>>)
  /\ (pc = "returned" /\ DownloadRequested(params)) =>
       (destExists /\ destBytes = res.bytes)

\* the parent directory of the destination is not writable
ParentNotWritable ==
  /\ params.downloadToPath \notin {Undefined, ""}
  /\ ~Writable(Dirname(params.downloadToPath), fs)

\* C12: a request whose downloadToPath has a parent directory that is not
\* writable (the current directory of a bare file name included) fails
\* validation with INVALID_REQUEST before any HTTP request is issued.
C12_ParentMustBeWritable ==
  (Called /\ ParentNotWritable) =>
    /\ pc = "threw"
    /\ thrown.code = "INVALID_REQUEST"
    /\ attempts = 0
    /\ fetchCalls = 0

\* C12, for a destination inside a named directory: the statement of C12
\* holds.
C12_NamedParentMustBeWritable ==
  (Called /\ ParentNotWritable /\ Dirname(params.downloadToPath) # ".") =>
    /\ pc = "threw"
    /\ thrown.code = "INVALID_REQUEST"
    /\ attempts = 0
    /\ fetchCalls = 0

\* C13: once an attempt has ended, however it ended (a result, an HTTP
\* error, a transport failure, a timeout, a cancellation by the caller), its
\* timeout timer is cancelled and no abort listener of the client is left on
\* the caller's signal or on the timer's signal: none remains between
\* attempts, during a backoff sleep, or after convert has completed.
C13_TimerAndListenersReleased ==
  pc \notin {"fetching", "reading", "piping"} =>
    (~timerArmed /\ listeners = {})

C13_Witness ==
  /\ pc = "sleeping"
  /\ fetchSignal = "merged"
  /\ signal = "idle"
  /\ cause = "timer"
  /\ ~timerArmed
  /\ listeners = {}

\* C14: in every state at most one HTTP request of the call is in flight,
\* it is the latest one issued, and an attempt is in progress only when every
\* earlier attempt has failed and the backoff sleep after each has ended.
C14_OneRequestInFlight ==
  /\ Cardinality(inflight) <= 1
  /\ inflight # {} =>
       (inflight = {fetchCalls} /\ pc \in {"fetching", "reading", "piping"})
  /\ pc \in {"building", "fetching", "reading", "piping"} =>
       /\ attempts = failures + 1
       /\ attempt = failures
       /\ sleeps = failures
       /\ backoffMs = 0

C14_Witness ==
  /\ pc = "fetching"
  /\ inflight = {3}
  /\ attempts = 3
  /\ failures = 2
  /\ sleeps = 2

\* what a convert call alone makes of the history log of its own attempts,
\* from attempt a on, with lastError = last and maxRetries = mr
RECURSIVE Alone(_, _, _, _)
Alone(a, last, mr, log) ==
  IF ~Le(Num(a), mr)
    THEN [pc |-> "threw", result |-> NoResult, used |-> a, sleeps |-> a,
          thrown |-> IF last.type # "none" THEN last
                     ELSE Office2PDFError("Unexpected conversion failure", "UNKNOWN",
                                          UndefinedNum, Undefined, NoDetails)]
  ELSE IF Len(log) <= a
    THEN [pc |-> "pending", result |-> NoResult, used |-> a, sleeps |-> a,
          thrown |-> NoError]
  ELSE IF log[a + 1].ok
    THEN [pc |-> "returned", result |-> log[a + 1].result, used |-> a + 1,
          sleeps |-> a, thrown |-> NoError]
  ELSE IF Lt(Num(a), mr) /\ isRetryAble(normalizeError(log[a + 1].err))
    THEN Alone(a + 1, normalizeError(log[a + 1].err), mr, log)
  ELSE [pc |-> "threw", result |-> NoResult, used |-> a + 1, sleeps |-> a,
        thrown |-> normalizeError(log[a + 1].err)]

\* C15: however two convert calls on one client are interleaved, the client's
\* configuration stays as constructed, and each call that has completed made
\* the attempts, took the retry decisions and has the outcome that a call
\* alone has on the same request and the same answers to its attempts; what
\* it returns or throws carries the request id of an answer to itself.
C15_CallsAreIndependent ==
  /\ client = NewClient(opts)
  /\ \A c \in CallIds :
       calls[c].pc \in {"returned", "threw"} =>
         IF validateParams(calls[c].params, fs).type # "none"
           THEN /\ calls[c].pc = "threw"
                /\ calls[c].thrown = validateParams(calls[c].params, fs)
                /\ calls[c].log = << >>
           ELSE /\ calls[c].pc = Alone(0, NoError, client.maxRetries, calls[c].log).pc
                /\ calls[c].thrown =
                     Alone(0, NoError, client.maxRetries, calls[c].log).thrown
                /\ calls[c].result =
                     Alone(0, NoError, client.maxRetries, calls[c].log).result
                /\ Len(calls[c].log) =
                     Alone(0, NoError, client.maxRetries, calls[c].log).used
                /\ calls[c].sleeps =
                     Alone(0, NoError, client.maxRetries, calls[c].log).sleeps
                /\ calls[c].result.requestId \in {Undefined, Rid(c)}
                /\ calls[c].thrown.requestId \in {Undefined, Rid(c)}

C15_Witness ==
  /\ calls[1].pc = "returned"
  /\ Len(calls[1].log) = 2
  /\ calls[1].result.requestId = Rid(1)
  /\ calls[2].pc = "threw"
  /\ Len(calls[2].log) = 2
  /\ calls[2].thrown.code = "UNAUTHORIZED"
  /\ calls[2].thrown.requestId = Rid(2)
  /\ client.maxRetries = Num(1)

\* the response's body is JSON for C16: the content type says so and the
\* body parses (to something other than null)
ClaimedJsonBody(r) ==
  /\ r.contentType \in {"application/json", "application/json; charset=utf-8"}
  /\ r.parses
  /\ ~r.json.isNull

\* C16: the error of a non-2xx response has as message the body's message
\* field when it is a string, else its error_description field when that is a
\* string, else "Request failed with status {status}"; a JSON body is the
\* error's details, and a body that is not JSON by its content type or does
\* not parse gives the fallback message and no details.
C16_ErrorMessageAndPayload ==
  (cause = "http" /\ ~Ok(res)) =>
    /\ lastError.message =
         (IF ClaimedJsonBody(res) /\ res.json.message.t = "string"
            THEN res.json.message.v
          ELSE IF ClaimedJsonBody(res) /\ res.json.error_description.t = "string"
            THEN res.json.error_description.v
          ELSE "Request failed with status " \o ToString(res.status))
    /\ lastError.details =
         (IF ClaimedJsonBody(res) THEN [kind |-> "json", json |-> res.json, name |-> ""]
          ELSE [kind |-> "undefined", json |-> NullJson, name |-> ""])
    /\ thrown = lastError

C16_Witness ==
  /\ cause = "http"
  /\ res.status = 401
  /\ res.contentType = "application/json; charset=utf-8"
  /\ res.parses
  /\ res.json.message.t = "number"
  /\ res.json.error_description = JsonString("bad token")
  /\ thrown.message = "bad token"
  /\ thrown.details.kind = "json"

\* C16, the fallback: a body that does not parse gives the fallback message
\* though the content type announces JSON.
C16_WitnessFallback ==
  /\ cause = "http"
  /\ res.status = 502
  /\ res.contentType = "application/json"
  /\ ~res.parses
  /\ thrown.message = "Request failed with status 502"
  /\ thrown.details.kind = "undefined"

\* C17: constructing a client fails exactly when the API key is missing,
\* empty or only whitespace, and construction, failed or not, issues no HTTP
\* request.
C17_ConstructionFailsIffNoKey ==
  /\ pc # "new" => (pc = "ctorThrew" <=> opts.apiKey \in {Undefined, "", " "})
  /\ pc \in {"ctorThrew", "idle"} =>
       (attempts = 0 /\ fetchCalls = 0 /\ inflight = {})
  /\ pc = "ctorThrew" => client = NoClient

C17_Witness ==
  /\ pc = "ctorThrew"
  /\ opts.apiKey = " "
  /\ fetchCalls = 0

\* C17, the other direction: a key with text in it constructs a client.
C17_WitnessConstructed ==
  /\ pc = "idle"
  /\ opts.apiKey = " k "
  /\ client.apiKey = "k"
  /\ fetchCalls = 0

\* C18: when the timeout timer fires in the end and backoff sleeps end, every
\* convert call in buffer or disk mode completes, whether or not the server
\* answers or finishes the body; and a call that ends because its last
\* attempt ran into the timeout ends with a TIMEOUT error.
C18_ConvertCompletes ==
  /\ (Called /\ ~params.asWebStream) ~> Done
  /\ []((pc = "threw" /\ cause = "timer") =>
          (thrown.type = "Office2PDFError" /\ thrown.code = "TIMEOUT"))

C18_Witness ==
  /\ pc = "threw"
  /\ ~params.asWebStream
  /\ params.hasSignal
  /\ client.maxRetries = Num(2)
  /\ failures = 3
  /\ cause = "timer"
  /\ res = NoResponse
  /\ thrown.code = "TIMEOUT"

\* C19: the wait before attempt n (counted from 0, n >= 1) is a whole number
\* of milliseconds, at least 300 * 2^(n-1) and less than 300 * 2^(n-1) + 150,
\* for every retry: n - 1 is the index of the attempt that has just failed.
\* While the call sleeps, n is the number of attempts made so far.
C19_BackoffRange ==
  /\ pc = "sleeping" =>
       /\ attempts >= 1
       /\ attempt = attempts - 1
       /\ backoffMs \in Nat
       /\ backoffMs >= 300 * 2 ^ (attempts - 1)
       /\ backoffMs < 300 * 2 ^ (attempts - 1) + 150
  /\ pc # "sleeping" => backoffMs = 0

C19_Witness ==
  /\ pc = "sleeping"
  /\ attempts = 2
  /\ backoffMs = 749

\* C19, the first retry at the low end of its range.
C19_WitnessFirst ==
  /\ pc = "sleeping"
  /\ attempts = 1
  /\ backoffMs = 300

\* the error is retry-eligible as C20 has it: kind TIMEOUT or NETWORK_ERROR,
\* or an HTTP status of 408, 429 or 500..599
ClaimedRetryEligible(err) ==
  \/ err.code \in {"TIMEOUT", "NETWORK_ERROR"}
  \/ /\ err.status.kind = "int"
     /\ err.status.n \in {408, 429} \cup (500..599)

\* attempt index i is less than maxRetries
ClaimedAttemptsRemain(i) ==
  client.maxRetries.kind = "int" /\ i < client.maxRetries.n

C20_WitnessThrown ==
  /\ pc = "threw"
  /\ client.maxRetries = Num(1)
  /\ attempt = 1
  /\ cause = "http"
  /\ res.status = 408
  /\ thrown.code = "INVALID_REQUEST"

C21_WitnessLastAttempt ==
  /\ pc = "threw"
  /\ client.maxRetries = Num(1)
  /\ attempts = 2
  /\ sleeps = 1
  /\ thrown.code = "SERVER_ERROR"

C21_WitnessNotRetryable ==
  /\ pc = "threw"
  /\ client.maxRetries = Num(2)
  /\ attempts = 1
  /\ sleeps = 0
  /\ thrown.code = "UNAUTHORIZED"

\* C22: the form of every request is built from the source file as it is on
\* disk when the attempt builds it: while request k is in flight its file
\* part is the current content of the file, also when the file has changed
\* since the attempt before, whose own upload had the content of its time.
C22_UploadIsCurrentContent ==
  /\ Len(uploads) = fetchCalls
  /\ pc \in {"fetching", "reading", "piping"} =>
       /\ fetchCalls >= 1
       /\ uploads[fetchCalls].file = srcContent
       /\ uploads[fetchCalls].output = "pdf"

C22_Witness ==
  /\ pc = "fetching"
  /\ fetchCalls = 2
  /\ uploads[1].file = "v1"
  /\ srcContent = "v2"
  /\ uploads[2].file = "v2"

\* the current attempt got a 2xx response without a body and the request
\* asked for stream or disk delivery
EmptyBodyCase ==
  /\ res.status \in 200..299
  /\ ~res.hasBody
  /\ params.asWebStream \/ params.downloadToPath \notin {Undefined, ""}

\* C23: a 2xx response without a body, for a request in stream or disk mode,
\* makes convert throw at once, whatever attempts remain: the error has kind
\* UNKNOWN, the response's request id and no status, no sleep follows, and
\* the step that fails the attempt leaves the destination file as it was.
C23_EmptyBodyIsUnknown ==
  /\ [](EmptyBodyCase =>
          /\ cause = "nobody"
          /\ pc = "threw"
          /\ thrown.type = "Office2PDFError"
          /\ thrown.code = "UNKNOWN"
          /\ thrown.status = UndefinedNum
          /\ thrown.requestId = ClaimedRequestId(res)
          /\ result = NoResult
          /\ attempts = failures
          /\ sleeps = failures - 1
          /\ backoffMs = 0)
  /\ [][EmptyBodyCase' =>
          (destExists' = destExists /\ destBytes' = destBytes)]_vars

C23_Witness ==
  /\ EmptyBodyCase
  /\ pc = "threw"
  /\ client.maxRetries = Num(2)
  /\ attempts = 1
  /\ params.downloadToPath = "rw/out.pdf"
  /\ res.xRequestId = Null
  /\ thrown.requestId = Ray(1)
  /\ thrown.code = "UNKNOWN"
  /\ ~destExists

\* the current attempt failed because the caller's signal fired while it was
\* in flight, or was aborted already when the attempt called fetch
CancelledByCaller == cause \in {"cancel", "preaborted"}

\* C24: an attempt that fails by the caller's cancellation fails with kind
\* TIMEOUT, so it is retried while attempts remain: the client sleeps, and
\* convert throws (TIMEOUT) only when maxRetries + 1 attempts have been made.
C24_CancellationIsRetried ==
  CancelledByCaller =>
    /\ lastError.code = "TIMEOUT"
    /\ pc \in {"sleeping", "loop", "threw"}
    /\ client.maxRetries.kind = "int"
    /\ pc = "threw" =>
         /\ thrown.code = "TIMEOUT"
         /\ attempts = client.maxRetries.n + 1
         /\ sleeps = client.maxRetries.n

\* C24, for a signal aborted without a reason of the caller's own
\* (controller.abort()): the statement of C24 holds.
C24_DefaultReasonIsRetried ==
  (CancelledByCaller /\ signal = "AbortError") =>
    /\ lastError.code = "TIMEOUT"
    /\ pc \in {"sleeping", "loop", "threw"}
    /\ client.maxRetries.kind = "int"
    /\ pc = "threw" =>
         /\ thrown.code = "TIMEOUT"
         /\ attempts = client.maxRetries.n + 1
         /\ sleeps = client.maxRetries.n

\* C24, with a default reason: cancelled during the first attempt, the call
\* goes through all its attempts before it throws.
C24_DefaultReasonWitness ==
  /\ pc = "threw"
  /\ cause = "preaborted"
  /\ signal = "AbortError"
  /\ client.maxRetries = Num(2)
  /\ attempts = 3
  /\ thrown.code = "TIMEOUT"

\* the current attempt failed locally: the source file could not be read when
\* the upload was built, or the destination file could not be written
LocalFailure == cause \in {"build", "write"}

\* C25: a local failure of an attempt has kind NETWORK_ERROR, without status
\* or request id, and is retried while attempts remain: the client sleeps and
\* the loop starts another attempt, which builds and sends its own upload;
\* on the last permitted attempt the error is thrown.
C25_LocalFailureIsRetried ==
  LocalFailure =>
    /\ lastError.type = "Office2PDFError"
    /\ lastError.code = "NETWORK_ERROR"
    /\ lastError.status = UndefinedNum
    /\ lastError.requestId = Undefined
    /\ client.maxRetries.kind = "int"
    /\ pc \in {"sleeping", "loop", "threw"}
    /\ pc = "sleeping" => attempt < client.maxRetries.n
    /\ pc = "loop" => attempt <= client.maxRetries.n
    /\ pc = "threw" => (attempt >= client.maxRetries.n /\ thrown = lastError)
    /\ Len(uploads) = fetchCalls
    /\ cause = "build" => fetchCalls < attempts
    /\ cause = "write" => (Ok(res) /\ res.hasBody /\ inflight = {})

C25_Witness ==
  /\ pc = "sleeping"
  /\ cause = "write"
  /\ client.maxRetries = Num(1)
  /\ attempt = 0
  /\ lastError.code = "NETWORK_ERROR"
  /\ destExists

\* C25, the build failure, and the attempt after a local failure.
C25_WitnessBuild ==
  /\ pc = "sleeping"
  /\ cause = "build"
  /\ fetchCalls = 0
  /\ lastError.code = "NETWORK_ERROR"

C25_WitnessFreshUpload ==
  /\ pc = "returned"
  /\ result.kind = "downloaded"
  /\ ~allTransient
  /\ failures = 1
  /\ fetchCalls = 2
  /\ Len(uploads) = 2

(* ------------------------------ claim C26 ------------------------------ *)

\* C26: once convert has returned a stream result, the timeout timer has been
\* cancelled and the listeners on the caller's signal removed, and the
\* returned stream is not aborted: not by the timeout, whose timer is no
\* longer armed, and not by the caller's signal firing afterwards
C26_ReturnedStreamNotAborted ==
  (pc = "returned" /\ result.kind = "stream")
    => /\ ~timerArmed
       /\ listeners = {}
       /\ streamState = "live"

\* a stream result was returned for a request made with the merged signal,
\* and the caller's signal has fired since
C26_Witness ==
  /\ pc = "returned"
  /\ result.kind = "stream"
  /\ fetchSignal = "merged"
  /\ signal \in AbortReasons
  /\ streamState = "live"

\* a stream result was returned for a request made with the timer's signal
C26_WitnessTimerOnly ==
  /\ pc = "returned"
  /\ result.kind = "stream"
  /\ fetchSignal = "timer"
  /\ ~timerArmed

====
